---- MODULE Spec2Model ----
\* Error tracking: ingestion with find-then-merge-or-create deduplication
\* (services/error_tracker.py), the ErrorLog table (models/error_log.py) and
\* the administrative resolve / unresolve / delete operations
\* (admin/error_log.py).
EXTENDS Integers, FiniteSets, Sequences, TLC

\* ---------------------------------------------------------------- bounds
\* timezone.now() is read at most MaxTime times in a behaviour.
MaxTime == 3
\* Number of request-handling threads that call track_error concurrently.
NumThreads == 2
\* The most parameters a posted form has.
MaxPostKeys == 2

Threads == 1..NumThreads
\* The caller of the sequential specification.
Main == CHOOSE t \in Threads : \A o \in Threads : t <= o

\* ---------------------------------------------------------------- values
\* Python None for an optional integer / datetime / foreign key / row.
NoneLine == 0
NoneTime == 0
NoneUser == "None"
NoneId == 0
NoRow == [id |-> NoneId]

Users == {"alice", "bob"}
\* What an operator writes in the notes field.
Notes == {"", "triaged"}
\* The clock starts after "no time".
StartTime == NoneTime + 1

VARIABLES
    errorlogs,       \* the ErrorLog table: a set of rows
    next_id,         \* the table's auto-increment primary key
    now,             \* the value the next timezone.now() returns
    pc,              \* per thread: position inside track_error
    call,            \* per thread: the arguments of the call in flight
    existing_error,  \* per thread: the model instance .first() returned
    result,          \* per thread: what the last track_error call returned
    caught,          \* per thread: did the last call end in the except clause
    message          \* the count the last bulk action reported with message_user

vars == <<errorlogs, next_id, now, pc, call, existing_error, result, caught, message>>

\* ------------------------------------------------- track_error arguments
\* An exception object raised at views.py:10 in view(); two call paths lead
\* to the same innermost frame, so the rendered traces differ.
ExcDeep == [kind |-> "exception", type |-> "ValueError", str |-> "bad value",
            tb |-> [file |-> "views.py", line |-> 10, func |-> "view", text |-> "trace-1"]]
ExcShallow == [kind |-> "exception", type |-> "ValueError", str |-> "bad value",
               tb |-> [file |-> "views.py", line |-> 10, func |-> "view", text |-> "trace-2"]]
MsgDisk == [kind |-> "str", type |-> "str", str |-> "disk full",
            tb |-> [file |-> "", line |-> NoneLine, func |-> "", text |-> ""]]

\* An exception object that was never raised (no traceback), and no
\* exception argument at all (None).
ExcBare == [kind |-> "exception", type |-> "ValueError", str |-> "bad value",
            tb |-> [file |-> "", line |-> NoneLine, func |-> "", text |-> ""]]
ExcNone == [kind |-> "none", type |-> "NoneType", str |-> "None",
            tb |-> [file |-> "", line |-> NoneLine, func |-> "", text |-> ""]]

\* ------------------------------------------------------------ the request
\* The strings the code takes apart (header values, POST keys) are sequences
\* of characters; an address is one character of a header value, being
\* neither a comma nor whitespace.
NoRequest == [present |-> FALSE]
NoneIp == <<"None">>
Whitespace == {" "}
UpperCase == <<"A", "B", "C", "D", "E", "F", "G", "H", "I", "J", "K", "L", "M",
               "N", "O", "P", "Q", "R", "S", "T", "U", "V", "W", "X", "Y", "Z">>
LowerCase == <<"a", "b", "c", "d", "e", "f", "g", "h", "i", "j", "k", "l", "m",
               "n", "o", "p", "q", "r", "s", "t", "u", "v", "w", "x", "y", "z">>

\* str.strip(): leading and trailing whitespace is removed.
Strip(s) ==
    LET keep == {i \in 1..Len(s) : s[i] \notin Whitespace}
    IN  IF keep = {}
        THEN <<>>
        ELSE SubSeq(s, CHOOSE i \in keep : \A j \in keep : i <= j,
                       CHOOSE i \in keep : \A j \in keep : j <= i)

\* str.split(',')[0]: what precedes the first comma.
SplitFirst(s) ==
    LET commas == {i \in 1..Len(s) : s[i] = ","}
    IN  IF commas = {}
        THEN s
        ELSE SubSeq(s, 1, (CHOOSE i \in commas : \A j \in commas : i <= j) - 1)

\* str.lower().
Lower(s) ==
    [i \in 1..Len(s) |->
        IF \E n \in 1..Len(UpperCase) : UpperCase[n] = s[i]
        THEN LowerCase[CHOOSE n \in 1..Len(UpperCase) : UpperCase[n] = s[i]]
        ELSE s[i]]

\* sub in s.
Contains(s, sub) ==
    \E i \in 0..(Len(s) - Len(sub)) : SubSeq(s, i + 1, i + Len(sub)) = sub

\* request.META.get(name): None when the header is not there.
MetaGet(META, name) == IF name \in DOMAIN META THEN META[name] ELSE NoneIp

\* Truthiness of a header value: None and '' are falsy.
HeaderTruthy(v) == v # NoneIp /\ v # <<>>

\* The priority turned round: the connection's address before the headers.
get_client_ip_RemoteFirst(request) ==
    IF ~request.present
    THEN NoneIp
    ELSE IF HeaderTruthy(MetaGet(request.META, "REMOTE_ADDR"))
         THEN MetaGet(request.META, "REMOTE_ADDR")
         ELSE IF HeaderTruthy(MetaGet(request.META, "HTTP_X_FORWARDED_FOR"))
              THEN Strip(SplitFirst(MetaGet(request.META, "HTTP_X_FORWARDED_FOR")))
              ELSE IF HeaderTruthy(MetaGet(request.META, "HTTP_X_REAL_IP"))
                   THEN Strip(MetaGet(request.META, "HTTP_X_REAL_IP"))
                   ELSE NoneIp

\* get_client_ip: the first truthy header decides, whatever its entry strips
\* to; REMOTE_ADDR is returned as it is, None when it is not there.
get_client_ip(request) ==
    IF ~request.present
    THEN NoneIp
    ELSE LET x_forwarded_for == MetaGet(request.META, "HTTP_X_FORWARDED_FOR")
             x_real_ip == MetaGet(request.META, "HTTP_X_REAL_IP")
         IN  IF HeaderTruthy(x_forwarded_for)
             THEN Strip(SplitFirst(x_forwarded_for))
             ELSE IF HeaderTruthy(x_real_ip)
                  THEN Strip(x_real_ip)
                  ELSE MetaGet(request.META, "REMOTE_ADDR")

sensitive_fields ==
    {<<"p", "a", "s", "s", "w", "o", "r", "d">>,
     <<"t", "o", "k", "e", "n">>,
     <<"a", "p", "i", "_", "k", "e", "y">>,
     <<"s", "e", "c", "r", "e", "t">>,
     <<"c", "s", "r", "f", "_", "t", "o", "k", "e", "n">>}

Filtered == "[FILTERED]"

\* The test without key.lower().
IsSensitiveCaseSensitive(key) ==
    \E sensitive \in sensitive_fields : Contains(key, sensitive)

\* any(sensitive in key.lower() for sensitive in sensitive_fields).
IsSensitive(key) ==
    LET lowered == Lower(key)
    IN  \E sensitive \in sensitive_fields : Contains(lowered, sensitive)

\* post_data: one entry per POST key, filtered or as submitted.
PostData(POST) ==
    [key \in DOMAIN POST |-> IF IsSensitive(key) THEN Filtered ELSE POST[key]]

\* get_request_details of a request (of an anonymous client, without query
\* string): post_params is there only when request.POST is not empty.
get_request_details(request) ==
    LET details == [method |-> request.method,
                    path |-> request.path,
                    user_agent |-> request.user_agent,
                    ip_address |-> get_client_ip(request)]
    IN  IF DOMAIN request.POST # {}
        THEN [k \in DOMAIN details \cup {"post_params"} |->
                IF k = "post_params" THEN PostData(request.POST) ELSE details[k]]
        ELSE details

\* A login form posted through a proxy.
KeyPassword == <<"p", "a", "s", "s", "w", "o", "r", "d">>
KeyName == <<"n", "a", "m", "e">>
Request1 ==
    [present |-> TRUE, method |-> "POST", path |-> "/login", user_agent |-> "curl",
     META |-> [k \in {"HTTP_X_FORWARDED_FOR", "REMOTE_ADDR"} |->
                 IF k = "REMOTE_ADDR" THEN <<"10.0.0.1">>
                 ELSE <<"1.1.1.1", ",", " ", "10.0.0.2">>],
     POST |-> [k \in {KeyPassword, KeyName} |-> IF k = KeyPassword THEN "x" ELSE "y"]]

NoDetails == <<>>
Details1 == [k \in {"job"} |-> "nightly"]
Details2 == [k \in {"job", "host"} |-> IF k = "job" THEN "hourly" ELSE "web-1"]

\* The calls the instrumented application makes.
Calls == {
    [exception |-> ExcDeep, error_level |-> "error", custom_message |-> "",
     debug_details |-> Details1, user |-> "alice", request |-> Request1,
     file_path |-> "", line_number |-> NoneLine, function_name |-> "",
     caller |-> [file |-> "api.py", line |-> 5, func |-> "handler"]],
    [exception |-> ExcShallow, error_level |-> "critical", custom_message |-> "",
     debug_details |-> Details2, user |-> NoneUser, request |-> NoRequest,
     file_path |-> "", line_number |-> NoneLine, function_name |-> "",
     caller |-> [file |-> "api.py", line |-> 9, func |-> "handler"]],
    [exception |-> MsgDisk, error_level |-> "warning", custom_message |-> "",
     debug_details |-> NoDetails, user |-> NoneUser, request |-> NoRequest,
     file_path |-> "jobs.py", line_number |-> 7, function_name |-> "run",
     caller |-> [file |-> "jobs.py", line |-> 30, func |-> "main"]]
}
NoCall == [error_level |-> "none"]

\* Where inside track_error an exception is raised ("none": nowhere).
Faults == {"none", "extract", "enrich", "lookup", "save", "create"}

\* ------------------------------------------------------ Event extraction
\* Python truthiness of the `exception` argument: None and '' are falsy.
Truthy(exception) ==
    /\ exception.kind # "none"
    /\ ~(exception.kind = "str" /\ exception.str = "")

\* extract_traceback_info: type, message and innermost frame of the exception.
extract_traceback_info(exception) ==
    [exception_type |-> exception.type,
     exception_message |-> exception.str,
     stack_trace |-> exception.tb.text,
     file_path |-> exception.tb.file,
     line_number |-> exception.tb.line,
     function_name |-> exception.tb.func]

\* error_info as track_error holds it when it queries the table.
ErrorInfo(a) ==
    LET initial ==
            [exception_type |-> "CustomError",
             exception_message |->
                 IF Truthy(a.exception)
                 THEN (IF a.custom_message # "" THEN a.custom_message ELSE a.exception.str)
                 ELSE "Unknown error",
             stack_trace |-> "",
             file_path |-> a.file_path,
             line_number |-> a.line_number,
             function_name |-> a.function_name]
        updated ==
            IF a.exception.kind = "exception"
            THEN extract_traceback_info(a.exception)
            ELSE initial
    IN  IF updated.file_path = "" /\ a.file_path = ""
        THEN [updated EXCEPT !.file_path = a.caller.file,
                             !.line_number = a.caller.line,
                             !.function_name = a.caller.func]
        ELSE updated

\* ---------------------------------------------------- Context enrichment
\* An update in which the keys already present keep their values.
DictSetDefault(old, new) ==
    [k \in DOMAIN old \cup DOMAIN new |-> IF k \in DOMAIN old THEN old[k] ELSE new[k]]

\* dict.update: keys of `new` overwrite, the other keys of `old` stay.
DictUpdate(old, new) ==
    [k \in DOMAIN old \cup DOMAIN new |-> IF k \in DOMAIN new THEN new[k] ELSE old[k]]

\* combined_debug_details: the caller's mapping, then request, user and
\* environment.
CombinedDebugDetails(a) ==
    LET withRequest ==
            IF a.request.present
            THEN DictUpdate(a.debug_details,
                            [k \in {"request"} |-> get_request_details(a.request)])
            ELSE a.debug_details
        withUser ==
            IF a.user # NoneUser
            THEN DictUpdate(withRequest, [k \in {"user"} |-> a.user])
            ELSE withRequest
    IN  DictUpdate(withUser, [k \in {"environment"} |-> "env"])

\* ------------------------------------------------------ the ErrorLog table
\* The lookup without resolved=False: resolved rows match too.
OpenMatchesAnyState(rows, info) ==
    {r \in rows :
        /\ r.exception_type = info.exception_type
        /\ r.exception_message = info.exception_message
        /\ r.file_path = info.file_path
        /\ r.line_number = info.line_number}

\* filter(exception_type=, exception_message=, file_path=, line_number=,
\* resolved=False): the open rows with the event's dedup key.
OpenMatches(rows, info) ==
    {r \in rows :
        /\ r.exception_type = info.exception_type
        /\ r.exception_message = info.exception_message
        /\ r.file_path = info.file_path
        /\ r.line_number = info.line_number
        /\ r.resolved = FALSE}

\* .first() under Meta.ordering = ['-last_occurrence']: a row of the
\* queryset with the latest last_occurrence (any of them on a tie).
First(qs) == {r \in qs : \A o \in qs : o.last_occurrence <= r.last_occurrence}

\* The merge without count += 1.
MergedNoIncrement(x, dd, t) ==
    [x EXCEPT !.last_occurrence = t,
              !.debug_details = DictUpdate(x.debug_details, dd)]

\* A merge that stamps first_occurrence as well as last_occurrence.
MergedRestartsFirst(x, dd, t) ==
    [x EXCEPT !.count = x.count + 1,
              !.first_occurrence = t,
              !.last_occurrence = t,
              !.debug_details = DictUpdate(x.debug_details, dd)]

\* The in-memory instance after count += 1, last_occurrence = now and
\* debug_details.update(combined_debug_details).
Merged(x, dd, t) ==
    [x EXCEPT !.count = x.count + 1,
              !.last_occurrence = t,
              !.debug_details = DictUpdate(x.debug_details, dd)]

\* Model.save() of an instance that has a primary key: every column of the
\* row is written from the instance (UPDATE, or INSERT when no row has the
\* key), and auto_now sets last_occurrence to the current time; on the
\* INSERT auto_now_add sets first_occurrence too.
Save(rows, x, t) ==
    IF \E r \in rows : r.id = x.id
    THEN {r \in rows : r.id # x.id} \cup {[x EXCEPT !.last_occurrence = t]}
    ELSE rows \cup {[x EXCEPT !.first_occurrence = t, !.last_occurrence = t]}

\* ErrorLog.objects.create(...): column defaults and auto_now_add.
NewRow(id, a, info, dd, t) ==
    [id |-> id,
     error_level |-> a.error_level,
     exception_type |-> info.exception_type,
     exception_message |-> info.exception_message,
     file_path |-> info.file_path,
     line_number |-> info.line_number,
     function_name |-> info.function_name,
     user |-> a.user,
     request_method |-> IF a.request.present THEN a.request.method ELSE "",
     request_path |-> IF a.request.present THEN a.request.path ELSE "",
     user_agent |-> IF a.request.present THEN a.request.user_agent ELSE "",
     ip_address |-> get_client_ip(a.request),
     stack_trace |-> info.stack_trace,
     debug_details |-> dd,
     resolved |-> FALSE,
     resolved_by |-> NoneUser,
     resolved_at |-> NoneTime,
     notes |-> "",
     count |-> 1,
     first_occurrence |-> t,
     last_occurrence |-> t]

\* except Exception as tracking_error: log it and return None.
Except == NoneId

Init ==
    /\ errorlogs = {}
    /\ next_id = 1
    /\ now = StartTime
    /\ pc = [t \in Threads |-> "idle"]
    /\ call = [t \in Threads |-> NoCall]
    /\ existing_error = [t \in Threads |-> NoRow]
    /\ result = [t \in Threads |-> NoneId]
    /\ caught = [t \in Threads |-> FALSE]
    /\ message = 0

\* The shape of the state: the columns of ErrorLog the model keeps
\* (created_at and updated_at always equal first_occurrence and
\* last_occurrence: the same auto_now_add / auto_now rules set them).
TypeOK ==
    /\ \A r \in errorlogs :
          /\ r.id \in 1..(next_id - 1)
          /\ r.error_level \in {"debug", "info", "warning", "error", "critical"}
          /\ r.line_number \in Nat
          /\ r.user \in Users \cup {NoneUser}
          /\ r.resolved \in BOOLEAN
          /\ r.resolved_by \in Users \cup {NoneUser}
          /\ r.resolved_at \in NoneTime..MaxTime
          /\ r.notes \in Notes
          /\ r.count \in 1..MaxTime
          /\ r.first_occurrence \in StartTime..MaxTime
          /\ r.last_occurrence \in StartTime..MaxTime
    /\ \A r, o \in errorlogs : r.id = o.id => r = o
    /\ now \in StartTime..(MaxTime + 1)
    /\ pc \in [Threads -> {"idle", "merge", "create", "edit", "done"}]
    /\ result \in [Threads -> NoneId..(next_id - 1)]
    /\ caught \in [Threads -> BOOLEAN]
    /\ message \in Nat

\* ------------------------------------------------------------ track_error
\* The call fails: the exception is caught, logged, and None is returned.
Fail(t, fault) ==
    /\ result' = [result EXCEPT ![t] = Except]
    /\ caught' = [caught EXCEPT ![t] = TRUE]
    /\ UNCHANGED <<errorlogs, next_id, now>>

\* The merge with a save that writes the row and then raises.
MergeAndSaveThenRaise(t, x, dd, fault) ==
    /\ fault \in {"none", "save"}
    /\ now <= MaxTime
    /\ errorlogs' = Save(errorlogs, Merged(x, dd, now), now)
    /\ now' = now + 1
    /\ result' = [result EXCEPT ![t] = IF fault = "save" THEN Except ELSE x.id]
    /\ caught' = [caught EXCEPT ![t] = (fault = "save")]
    /\ UNCHANGED next_id

\* existing_error is found: merge into it, save it, return it.
MergeAndSave(t, x, dd, fault) ==
    IF fault = "save"
    THEN Fail(t, fault)
    ELSE /\ fault = "none"
         /\ now <= MaxTime
         /\ errorlogs' = Save(errorlogs, Merged(x, dd, now), now)
         /\ now' = now + 1
         /\ result' = [result EXCEPT ![t] = x.id]
         /\ caught' = [caught EXCEPT ![t] = FALSE]
         /\ UNCHANGED next_id

\* No open row has the key: create one and return it.
Create(t, a, info, dd, fault) ==
    IF fault = "create"
    THEN Fail(t, fault)
    ELSE /\ fault = "none"
         /\ now <= MaxTime
         /\ errorlogs' = errorlogs \cup {NewRow(next_id, a, info, dd, now)}
         /\ next_id' = next_id + 1
         /\ now' = now + 1
         /\ result' = [result EXCEPT ![t] = next_id]
         /\ caught' = [caught EXCEPT ![t] = FALSE]

\* The call with a merge that also copies the event's trace into the row.
TrackErrorOverwritesTrace(t, a, fault) ==
    /\ pc[t] = "idle"
    /\ IF fault \in {"extract", "enrich", "lookup"}
       THEN Fail(t, fault)
       ELSE LET info == ErrorInfo(a)
                dd == CombinedDebugDetails(a)
                found == First(OpenMatches(errorlogs, info))
            IN  IF found # {}
                THEN \E x \in found :
                        MergeAndSave(t, [x EXCEPT !.stack_trace = info.stack_trace], dd, fault)
                ELSE Create(t, a, info, dd, fault)
    /\ UNCHANGED <<pc, call, existing_error, message>>

\* The call with a merge that also takes the event's level and user.
TrackErrorOverwritesLevel(t, a, fault) ==
    /\ pc[t] = "idle"
    /\ IF fault \in {"extract", "enrich", "lookup"}
       THEN Fail(t, fault)
       ELSE LET info == ErrorInfo(a)
                dd == CombinedDebugDetails(a)
                found == First(OpenMatches(errorlogs, info))
            IN  IF found # {}
                THEN \E x \in found :
                        MergeAndSave(t, [x EXCEPT !.error_level = a.error_level,
                                                  !.user = a.user], dd, fault)
                ELSE Create(t, a, info, dd, fault)
    /\ UNCHANGED <<pc, call, existing_error, message>>

\* A whole track_error call that no other operation interleaves with.
TrackError(t, a, fault) ==
    /\ pc[t] = "idle"
    /\ IF fault \in {"extract", "enrich", "lookup"}
       THEN Fail(t, fault)
       ELSE LET info == ErrorInfo(a)
                dd == CombinedDebugDetails(a)
                found == First(OpenMatches(errorlogs, info))
            IN  IF found # {}
                THEN \E x \in found : MergeAndSave(t, x, dd, fault)
                ELSE Create(t, a, info, dd, fault)
    /\ UNCHANGED <<pc, call, existing_error, message>>

\* ------------------------------------------------------------ admin actions
Ids(rows) == {r.id : r \in rows}

\* The update without filter(resolved=False): every selected row is stamped.
ResolveRowsRestamp(rows, sel, u, t) ==
    {IF r.id \in sel
     THEN [r EXCEPT !.resolved = TRUE, !.resolved_by = u, !.resolved_at = t]
     ELSE r : r \in rows}

\* queryset.filter(resolved=False).update(resolved=True, resolved_by=,
\* resolved_at=): one UPDATE statement; update() does not run auto_now.
ResolveRows(rows, sel, u, t) ==
    {IF r.id \in sel /\ r.resolved = FALSE
     THEN [r EXCEPT !.resolved = TRUE, !.resolved_by = u, !.resolved_at = t]
     ELSE r : r \in rows}

\* queryset.filter(resolved=True).update(resolved=False, resolved_by=None,
\* resolved_at=None).
UnresolveRows(rows, sel) ==
    {IF r.id \in sel /\ r.resolved = TRUE
     THEN [r EXCEPT !.resolved = FALSE, !.resolved_by = NoneUser, !.resolved_at = NoneTime]
     ELSE r : r \in rows}

\* The delete without filter(resolved=True): every selected row goes.
DeleteSelectedRows(rows, sel) ==
    {r \in rows : r.id \notin sel}

\* A delete that forgets the selection: every resolved row goes.
DeleteAllResolvedRows(rows, sel) ==
    {r \in rows : ~(r.resolved = TRUE)}

\* queryset.filter(resolved=True).delete().
DeleteResolvedRows(rows, sel) ==
    {r \in rows : ~(r.id \in sel /\ r.resolved = TRUE)}

\* mark_as_resolved reporting the size of the selection.
MarkAsResolvedCountsSelection(sel, u) ==
    /\ now <= MaxTime
    /\ errorlogs' = ResolveRows(errorlogs, sel, u, now)
    /\ message' = Cardinality(sel)
    /\ now' = now + 1
    /\ UNCHANGED <<next_id, pc, call, existing_error, result, caught>>

\* The admin runs an action on a non-empty selection of the listed rows.
MarkAsResolved(sel, u) ==
    /\ now <= MaxTime
    /\ errorlogs' = ResolveRows(errorlogs, sel, u, now)
    /\ message' = Cardinality({r \in errorlogs : r.id \in sel /\ r.resolved = FALSE})
    /\ now' = now + 1
    /\ UNCHANGED <<next_id, pc, call, existing_error, result, caught>>

MarkAsUnresolved(sel) ==
    /\ errorlogs' = UnresolveRows(errorlogs, sel)
    /\ message' = Cardinality({r \in errorlogs : r.id \in sel /\ r.resolved = TRUE})
    /\ UNCHANGED <<next_id, now, pc, call, existing_error, result, caught>>

BulkDeleteResolved(sel) ==
    /\ errorlogs' = DeleteResolvedRows(errorlogs, sel)
    /\ message' = Cardinality({r \in errorlogs : r.id \in sel /\ r.resolved = TRUE})
    /\ UNCHANGED <<next_id, now, pc, call, existing_error, result, caught>>

\* ------------------------------------------------------ single-record edit

\* What an operator submits in the change form for row r: resolved, resolved_by
\* (any user or empty), resolved_at (left as displayed, emptied, or a typed
\* time) and notes.
Forms(r) ==
    [resolved : BOOLEAN,
     resolved_by : Users \cup {NoneUser},
     resolved_at : {NoneTime, r.resolved_at, StartTime},
     notes : Notes]

\* The instance the ModelForm hands to save_model: the row with the
\* submitted values set on it.
FormInstance(r, form) ==
    [r EXCEPT !.resolved = form.resolved,
              !.resolved_by = form.resolved_by,
              !.resolved_at = form.resolved_at,
              !.notes = form.notes]

\* form.changed_data: the submitted fields that differ from the row.
ChangedData(r, form) ==
    {f \in {"resolved", "resolved_by", "resolved_at", "notes"} : form[f] # r[f]}

\* save_model without the elif branch that clears on resolved = False.
SaveModelKeepsStamp(obj, changed_data, u, t) ==
    IF "resolved" \in changed_data /\ obj.resolved /\ obj.resolved_by = NoneUser
    THEN [obj EXCEPT !.resolved_by = u, !.resolved_at = t]
    ELSE obj

\* save_model without the test 'resolved' in form.changed_data.
SaveModelAlwaysStamps(obj, changed_data, u, t) ==
    IF obj.resolved /\ obj.resolved_by = NoneUser
    THEN [obj EXCEPT !.resolved_by = u, !.resolved_at = t]
    ELSE IF ~obj.resolved
         THEN [obj EXCEPT !.resolved_by = NoneUser, !.resolved_at = NoneTime]
         ELSE obj

\* save_model with change = True, up to the call of super().save_model.
SaveModel(obj, changed_data, u, t) ==
    IF "resolved" \in changed_data
    THEN IF obj.resolved /\ obj.resolved_by = NoneUser
         THEN [obj EXCEPT !.resolved_by = u, !.resolved_at = t]
         ELSE IF ~obj.resolved
              THEN [obj EXCEPT !.resolved_by = NoneUser, !.resolved_at = NoneTime]
              ELSE obj
    ELSE obj

\* The change view: load the row, bind the form, save_model, obj.save().
ChangeView(id, form, u) ==
    /\ now <= MaxTime
    /\ now' = now + 1
    /\ UNCHANGED <<next_id, pc, call, existing_error, result, caught, message>>
    /\ \E r \in errorlogs :
         /\ r.id = id
         /\ form \in Forms(r)
         /\ errorlogs' = Save(errorlogs,
                              SaveModel(FormInstance(r, form), ChangedData(r, form), u, now),
                              now)

\* ------------------------------------------------- the change view, in steps
\* The POST of the change form on thread t: get_object reads the row, the
\* form is bound to it.
EditLoad(t, id, form, u) ==
    /\ pc[t] = "idle"
    /\ \E r \in errorlogs :
         /\ r.id = id
         /\ form \in Forms(r)
         /\ existing_error' = [existing_error EXCEPT ![t] = r]
    /\ call' = [call EXCEPT ![t] = [error_level |-> "edit", form |-> form, user |-> u]]
    /\ pc' = [pc EXCEPT ![t] = "edit"]
    /\ UNCHANGED <<errorlogs, next_id, now, result, caught, message>>

\* save_model and obj.save() on the instance read by EditLoad.
EditSave(t) ==
    /\ pc[t] = "edit"
    /\ now <= MaxTime
    /\ LET obj == existing_error[t]
           form == call[t].form
       IN  errorlogs' = Save(errorlogs,
                             SaveModel(FormInstance(obj, form), ChangedData(obj, form),
                                       call[t].user, now),
                             now)
    /\ now' = now + 1
    /\ pc' = [pc EXCEPT ![t] = "idle"]
    /\ call' = [call EXCEPT ![t] = NoCall]
    /\ existing_error' = [existing_error EXCEPT ![t] = NoRow]
    /\ UNCHANGED <<next_id, result, caught, message>>

Selections == (SUBSET Ids(errorlogs)) \ {{}}

\* ------------------------------------------------------------ delete view
\* The users whose is_superuser flag is set.
Superusers == {"alice"}

\* has_delete_permission: request.user.is_superuser, whatever the object.
HasDeletePermission(u) == u \in Superusers

\* The admin's delete view (and its delete_selected action), which the
\* admin site offers to whoever has_delete_permission admits: the row goes.
DeleteView(id, u) ==
    /\ HasDeletePermission(u)
    /\ id \in Ids(errorlogs)
    /\ errorlogs' = {r \in errorlogs : r.id # id}
    /\ UNCHANGED <<next_id, now, pc, call, existing_error, result, caught, message>>

\* ------------------------------------------- track_error, statement by statement
\* Lines 136-204: extraction, enrichment and the lookup of an open row.
TrackFind(t, a, fault) ==
    /\ pc[t] = "idle"
    /\ fault \in {"none", "extract", "enrich", "lookup"}
    /\ call' = [call EXCEPT ![t] = a]
    /\ IF fault # "none"
       THEN /\ Fail(t, fault)
            /\ pc' = [pc EXCEPT ![t] = "done"]
            /\ UNCHANGED existing_error
       ELSE LET found == First(OpenMatches(errorlogs, ErrorInfo(a)))
            IN  /\ IF found # {}
                   THEN \E x \in found :
                          /\ existing_error' = [existing_error EXCEPT ![t] = x]
                          /\ pc' = [pc EXCEPT ![t] = "merge"]
                   ELSE /\ existing_error' = [existing_error EXCEPT ![t] = NoRow]
                        /\ pc' = [pc EXCEPT ![t] = "create"]
                /\ UNCHANGED <<errorlogs, next_id, now, result, caught>>
    /\ UNCHANGED message

\* Lines 206-215: the instance read earlier is changed and saved.
TrackMerge(t, fault) ==
    /\ pc[t] = "merge"
    /\ fault \in {"none", "save"}
    /\ MergeAndSave(t, existing_error[t], CombinedDebugDetails(call[t]), fault)
    /\ pc' = [pc EXCEPT ![t] = "done"]
    /\ UNCHANGED <<call, existing_error, message>>

\* Lines 217-250: no instance was read, a row is inserted.
TrackCreate(t, fault) ==
    /\ pc[t] = "create"
    /\ fault \in {"none", "create"}
    /\ Create(t, call[t], ErrorInfo(call[t]), CombinedDebugDetails(call[t]), fault)
    /\ pc' = [pc EXCEPT ![t] = "done"]
    /\ UNCHANGED <<call, existing_error, message>>

\* ------------------------------------------------------------ specifications
\* Every handler runs to completion before the next one starts.
Next ==
    \/ \E a \in Calls, fault \in Faults : TrackError(Main, a, fault)
    \/ \E sel \in Selections, u \in Users : MarkAsResolved(sel, u)
    \/ \E sel \in Selections : MarkAsUnresolved(sel)
    \/ \E sel \in Selections : BulkDeleteResolved(sel)
    \/ \E r \in errorlogs, u \in Users : \E form \in Forms(r) : ChangeView(r.id, form, u)
    \/ \E r \in errorlogs, u \in Users : DeleteView(r.id, u)

Spec == Init /\ [][Next]_vars

\* Each thread makes one track_error call; the calls interleave at the
\* database statements.
NextIngest ==
    \/ \E t \in Threads, a \in Calls, fault \in Faults : TrackFind(t, a, fault)
    \/ \E t \in Threads, fault \in Faults : TrackMerge(t, fault)
    \/ \E t \in Threads, fault \in Faults : TrackCreate(t, fault)

SpecIngest == Init /\ [][NextIngest]_vars

\* The ingestion calls of SpecIngest, with an operator who bulk-resolves
\* between their database statements.
NextResolveRace ==
    \/ NextIngest
    \/ \E sel \in Selections, u \in Users : MarkAsResolved(sel, u)

SpecResolveRace == Init /\ [][NextResolveRace]_vars

\* Ingestion calls on the main thread, each run to completion, while the
\* other threads serve change-form posts whose read and save they fall
\* between.
NextEditRace ==
    \/ \E a \in Calls, fault \in Faults : TrackError(Main, a, fault)
    \/ \E t \in Threads \ {Main}, r \in errorlogs, u \in Users :
          \E form \in Forms(r) : EditLoad(t, r.id, form, u)
    \/ \E t \in Threads \ {Main} : EditSave(t)

SpecEditRace == Init /\ [][NextEditRace]_vars

\* ------------------------------------------------------------------ claims
\* The dedup key of a row or of a normalized event.
KeyOf(x) == <<x.exception_type, x.exception_message, x.file_path, x.line_number>>

RowsWithKey(rows, k) == {r \in rows : KeyOf(r) = k}
OpenRowsWithKey(rows, k) == {r \in rows : KeyOf(r) = k /\ ~r.resolved}

\* C1: N concurrent track_error calls with one dedup key, all of which
\* returned a record, leave exactly one row with that key, and its count is N.
C1_OneRecordCountN ==
    (/\ \A t \in Threads : pc[t] = "done" /\ result[t] # NoneId
     /\ \A t \in Threads : KeyOf(ErrorInfo(call[t])) = KeyOf(ErrorInfo(call[Main])))
    => \E r \in errorlogs :
          /\ RowsWithKey(errorlogs, KeyOf(ErrorInfo(call[Main]))) = {r}
          /\ r.count = NumThreads

\* C2: no two open rows share a dedup key.
C2_NoTwoOpenSameKey ==
    \A r, o \in errorlogs :
        (r # o /\ ~r.resolved /\ ~o.resolved) => KeyOf(r) # KeyOf(o)

\* C3: a successful sequential call whose key has an open row returns an
\* open row with that key, whose count grew by exactly one, and the table
\* keeps its size.
C3_SecondCallMerges ==
    [][\A a \in Calls :
          (/\ TrackError(Main, a, "none")
           /\ OpenRowsWithKey(errorlogs, KeyOf(ErrorInfo(a))) # {})
          => /\ Cardinality(errorlogs') = Cardinality(errorlogs)
             /\ Ids(errorlogs') = Ids(errorlogs)
             /\ \E x \in OpenRowsWithKey(errorlogs, KeyOf(ErrorInfo(a))) :
                   /\ result'[Main] = x.id
                   /\ \E y \in errorlogs' : y.id = x.id /\ y.count = x.count + 1
                   /\ errorlogs' \ errorlogs = {y \in errorlogs' : y.id = x.id}]_vars

\* Three sequential ingestions of one error: one row, count 3, returned.
C3_Witness ==
    \E r \in errorlogs :
        /\ errorlogs = {r}
        /\ r.count = 3
        /\ result[Main] = r.id
        /\ ~caught[Main]

\* C4: a successful sequential call whose key has no open row inserts one
\* new open row with count 1 and a fresh id, returns it, and changes no
\* other row (the resolved rows with the key included).
C4_ResolvedNeverMergedInto ==
    [][\A a \in Calls :
          (/\ TrackError(Main, a, "none")
           /\ OpenRowsWithKey(errorlogs, KeyOf(ErrorInfo(a))) = {})
          => \E n \in errorlogs' :
                /\ n.id \notin Ids(errorlogs)
                /\ KeyOf(n) = KeyOf(ErrorInfo(a))
                /\ n.resolved = FALSE
                /\ n.resolved_by = NoneUser /\ n.resolved_at = NoneTime
                /\ n.count = 1
                /\ result'[Main] = n.id
                /\ errorlogs' = errorlogs \cup {n}]_vars

\* A resolved row and a newer open row of the same key, the open one just
\* returned with count 1.
C4_Witness ==
    \E r, n \in errorlogs :
        /\ r.resolved /\ ~n.resolved
        /\ KeyOf(r) = KeyOf(n)
        /\ r.id < n.id
        /\ n.count = 1
        /\ result[Main] = n.id

\* C5: a call in which an exception is raised (in extraction, enrichment,
\* lookup, save or create) ends in the except clause, returns None and
\* leaves the table as it was.
C5_FailureIsCaught ==
    [][\A a \in Calls, fault \in Faults \ {"none"} :
          TrackError(Main, a, fault)
          => /\ caught'[Main] = TRUE
             /\ result'[Main] = NoneId
             /\ errorlogs' = errorlogs
             /\ next_id' = next_id]_vars

\* A call failed while the table holds rows.
C5_Witness ==
    /\ caught[Main]
    /\ result[Main] = NoneId
    /\ errorlogs # {}

\* The row of `rows` with primary key id.
RowById(rows, id) == CHOOSE r \in rows : r.id = id

\* The rows a step rewrote, each with the forms that can have produced its
\* new resolved flag and notes (an edit stores both as submitted).
EditedRows == {r \in errorlogs : r \notin errorlogs' /\ r.id \in Ids(errorlogs')}
FormsGiving(r, new) == {f \in Forms(r) : f.resolved = new.resolved /\ f.notes = new.notes}

\* C6: a row is resolved exactly when resolved_by and resolved_at are both
\* set: an open row has neither, a resolved row has both.
C6_ResolvedIffStamped ==
    \A r \in errorlogs :
        /\ r.resolved => (r.resolved_by # NoneUser /\ r.resolved_at # NoneTime)
        /\ ~r.resolved => (r.resolved_by = NoneUser /\ r.resolved_at = NoneTime)

\* C7: whenever a step takes a row from resolved to open (a single-record
\* edit or bulk unresolve), the row ends with resolved_by and resolved_at empty.
C7_ReopenClearsStamp ==
    [][\A r \in errorlogs :
          (r.resolved /\ r.id \in Ids(errorlogs') /\ ~RowById(errorlogs', r.id).resolved)
          => /\ RowById(errorlogs', r.id).resolved_by = NoneUser
             /\ RowById(errorlogs', r.id).resolved_at = NoneTime]_vars

\* A reopened row: it is open and unstamped next to a newer open row of
\* its key, which ingestion created while the older row was resolved.
C7_Witness ==
    \E r, n \in errorlogs :
        /\ r.id < n.id
        /\ KeyOf(r) = KeyOf(n)
        /\ ~r.resolved /\ ~n.resolved
        /\ r.resolved_by = NoneUser /\ r.resolved_at = NoneTime

\* C8 as stated: an edit that resolves an open row without resolved_by
\* stamps the acting user and the current time, and an edit that leaves
\* resolved as it is never changes resolved_by or resolved_at.
C8_EditKeepsStamp ==
    [][\A r \in EditedRows, u \in Users :
        \A form \in FormsGiving(r, RowById(errorlogs', r.id)) :
          ChangeView(r.id, form, u)
          => LET new == RowById(errorlogs', r.id)
             IN  /\ (~r.resolved /\ form.resolved /\ form.resolved_by = NoneUser)
                    => (new.resolved /\ new.resolved_by = u /\ new.resolved_at = now)
                 /\ (form.resolved = r.resolved)
                    => (new.resolved_by = r.resolved_by /\ new.resolved_at = r.resolved_at)]_vars

\* C8 amended: an edit that resolves an open row without resolved_by stamps
\* the acting user and the current time, and an edit that leaves resolved
\* as it is stores resolved_by and resolved_at exactly as submitted (nothing
\* is assigned automatically), so submitting them as displayed keeps them.
C8_EditStampsOnlyOnResolve ==
    [][\A r \in EditedRows, u \in Users :
        \A form \in FormsGiving(r, RowById(errorlogs', r.id)) :
          ChangeView(r.id, form, u)
          => LET new == RowById(errorlogs', r.id)
             IN  /\ (~r.resolved /\ form.resolved /\ form.resolved_by = NoneUser)
                    => (new.resolved /\ new.resolved_by = u /\ new.resolved_at = now)
                 /\ (form.resolved = r.resolved)
                    => /\ new.resolved_by = form.resolved_by
                       /\ new.resolved_at = form.resolved_at
                       /\ (form.resolved_by = r.resolved_by /\ form.resolved_at = r.resolved_at)
                          => (new.resolved_by = r.resolved_by /\ new.resolved_at = r.resolved_at)]_vars

\* No bulk action has run; a row was resolved by an edit that stamped it
\* (resolved_at is a time the clock gave) and a later edit set its notes.
C8_Witness ==
    /\ message = 0
    /\ \E r \in errorlogs :
          /\ r.resolved
          /\ r.resolved_by # NoneUser
          /\ r.resolved_at > r.first_occurrence
          /\ r.last_occurrence > r.resolved_at
          /\ r.notes = "triaged"

\* C9: bulk resolve stamps exactly the open rows of the selection with the
\* acting user and one timestamp; resolved rows of the selection and rows
\* outside it stay as they are, and no row appears or disappears.
C9_BulkResolveFrame ==
    [][\A sel \in Selections, u \in Users :
          MarkAsResolved(sel, u)
          => /\ Ids(errorlogs') = Ids(errorlogs)
             /\ Cardinality(errorlogs') = Cardinality(errorlogs)
             /\ \A r \in errorlogs :
                   IF r.id \in sel /\ ~r.resolved
                   THEN [r EXCEPT !.resolved = TRUE,
                                  !.resolved_by = u,
                                  !.resolved_at = now] \in errorlogs'
                   ELSE r \in errorlogs']_vars

\* A row never saved since its creation was stamped by a bulk resolve two
\* clock reads ago; the bulk resolve that read the clock last selected it,
\* transitioned nothing (it reported 0) and left the older stamp.
C9_Witness ==
    /\ message = 0
    /\ \E r \in errorlogs :
          /\ errorlogs = {r}
          /\ next_id = r.id + 1
          /\ r.count = 1
          /\ r.last_occurrence = r.first_occurrence
          /\ r.resolved
          /\ r.resolved_by # NoneUser
          /\ r.resolved_at = now - 2

\* C10: bulk delete removes exactly the resolved rows of the selection;
\* open rows of the selection and rows outside it stay, unchanged.
C10_BulkDeleteFrame ==
    [][\A sel \in Selections :
          BulkDeleteResolved(sel)
          => /\ errorlogs' \subseteq errorlogs
             /\ \A r \in errorlogs :
                   IF r.id \in sel /\ r.resolved
                   THEN r.id \notin Ids(errorlogs')
                   ELSE r \in errorlogs']_vars

\* A row was deleted (fewer rows than ids handed out) and the bulk delete
\* reported it, while a row that is open is still there.
C10_Witness ==
    /\ message >= 1
    /\ Cardinality(errorlogs) < next_id - 1
    /\ \E r \in errorlogs : ~r.resolved /\ r.resolved_by = NoneUser

\* ---------------------------------------------------------- normalization
\* Every shape of first argument with every combination of custom message
\* and location overrides ("" and NoneLine: the argument is not given).
NormalizeCalls ==
    {[exception |-> e, error_level |-> "error", custom_message |-> m,
      debug_details |-> NoDetails, user |-> NoneUser, request |-> NoRequest,
      file_path |-> f, line_number |-> l, function_name |-> fn,
      caller |-> [file |-> "api.py", line |-> 5, func |-> "handler"]] :
        e \in {ExcDeep, ExcBare, MsgDisk, ExcNone},
        m \in {"", "custom"},
        f \in {"", "jobs.py"},
        l \in {NoneLine, 7},
        fn \in {"", "run"}}

\* One call site of the application: call[Main] is the call it makes, on an
\* empty table, each time it runs.
InitCallSite(calls) ==
    /\ errorlogs = {}
    /\ next_id = 1
    /\ now = StartTime
    /\ pc = [t \in Threads |-> "idle"]
    /\ \E a \in calls : call = [t \in Threads |-> IF t = Main THEN a ELSE NoCall]
    /\ existing_error = [t \in Threads |-> NoRow]
    /\ result = [t \in Threads |-> NoneId]
    /\ caught = [t \in Threads |-> FALSE]
    /\ message = 0

NextCallSite == TrackError(Main, call[Main], "none")

InitNormalize == InitCallSite(NormalizeCalls)

SpecNormalize == InitNormalize /\ [][NextCallSite]_vars

\* --------------------------------------------------------------- redaction
\* The forms a client posts: up to MaxPostKeys of these keys, each with one
\* of two values.
KeyAuthToken == <<"A", "U", "T", "H", "_", "T", "O", "K", "E", "N">>
PostKeys ==
    {KeyPassword, KeyName, KeyAuthToken,
     <<"P", "a", "s", "s", "w", "o", "r", "d", "2">>,
     <<"a", "p", "i", "_", "k", "e", "y">>,
     <<"a", "p", "i", "k", "e", "y">>,
     <<"m", "y", "_", "S", "e", "c", "r", "e", "t">>,
     <<"p", "a", "s", "s">>}
PostValues == {"x", "y"}
PostInputs ==
    UNION {[ks -> PostValues] : ks \in {s \in SUBSET PostKeys : Cardinality(s) <= MaxPostKeys}}

RedactCalls ==
    {[exception |-> MsgDisk, error_level |-> "error", custom_message |-> "",
      debug_details |-> NoDetails, user |-> NoneUser,
      request |-> [Request1 EXCEPT !.POST = post],
      file_path |-> "", line_number |-> NoneLine, function_name |-> "",
      caller |-> [file |-> "api.py", line |-> 5, func |-> "handler"]] :
        post \in PostInputs}

InitRedact == InitCallSite(RedactCalls)

SpecRedact == InitRedact /\ [][NextCallSite]_vars

\* --------------------------------------------------------------- client IP
\* The requests a call may carry: none, or one in which each of the three
\* headers is missing, empty or one of the values below.
HeaderValues ==
    [k \in {"HTTP_X_FORWARDED_FOR", "HTTP_X_REAL_IP", "REMOTE_ADDR"} |->
        IF k = "HTTP_X_FORWARDED_FOR"
        THEN {<<>>, <<"1.1.1.1">>, <<" ", "1.1.1.1", " ", ",", "2.2.2.2">>,
              <<",", "2.2.2.2">>, <<" ">>}
        ELSE IF k = "HTTP_X_REAL_IP"
             THEN {<<>>, <<"3.3.3.3">>, <<" ", "3.3.3.3", " ">>}
             ELSE {<<>>, <<"4.4.4.4">>}]
MetaInputs ==
    {m \in UNION {[names -> UNION {HeaderValues[k] : k \in DOMAIN HeaderValues}] :
                     names \in SUBSET DOMAIN HeaderValues} :
        \A k \in DOMAIN m : m[k] \in HeaderValues[k]}

ClientIpCalls ==
    {[exception |-> MsgDisk, error_level |-> "error", custom_message |-> "",
      debug_details |-> NoDetails, user |-> NoneUser,
      request |-> rq,
      file_path |-> "", line_number |-> NoneLine, function_name |-> "",
      caller |-> [file |-> "api.py", line |-> 5, func |-> "handler"]] :
        rq \in {NoRequest} \cup {[Request1 EXCEPT !.META = m] : m \in MetaInputs}}

InitClientIp == InitCallSite(ClientIpCalls)

SpecClientIp == InitClientIp /\ [][NextCallSite]_vars

\* ------------------------------------------------------------------ replay
\* A call site whose call is submitted again and again, as a client that
\* retries does, whether or not the earlier submission raised inside
\* track_error.
ReplayCalls == Calls \cup NormalizeCalls \cup ClientIpCalls

InitReplay == InitCallSite(ReplayCalls)

NextReplay == \E fault \in Faults : TrackError(Main, call[Main], fault)

SpecReplay == InitReplay /\ [][NextReplay]_vars

\* ------------------------------------------------------- a reused mapping
\* combined_debug_details = debug_details or {}: the caller's own mapping
\* when it is not empty, a new one otherwise.
IsCallersMapping(debug_details) == debug_details # NoDetails

\* The caller's mapping after a call with arguments a: the keys track_error
\* assigns to combined_debug_details are assigned to it when it is the same
\* object. An exception at extraction, or in get_request_details before the
\* first assignment, leaves it as it was.
MappingAfter(a, fault) ==
    IF IsCallersMapping(a.debug_details) /\ fault \notin {"extract", "enrich"}
    THEN CombinedDebugDetails(a)
    ELSE a.debug_details

\* A call site that keeps one mapping, call[t].debug_details, and passes it
\* as debug_details to every call it makes, with the other arguments of a.
TrackErrorInPlace(t, a, fault) ==
    LET args == [a EXCEPT !.debug_details = call[t].debug_details]
    IN  /\ pc[t] = "idle"
        /\ call' = [call EXCEPT ![t] = [args EXCEPT !.debug_details = MappingAfter(args, fault)]]
        /\ IF fault \in {"extract", "enrich", "lookup"}
           THEN Fail(t, fault)
           ELSE LET info == ErrorInfo(args)
                    dd == CombinedDebugDetails(args)
                    found == First(OpenMatches(errorlogs, info))
                IN  IF found # {}
                    THEN \E x \in found : MergeAndSave(t, x, dd, fault)
                    ELSE Create(t, args, info, dd, fault)
        /\ UNCHANGED <<pc, existing_error, message>>

InitReuse == InitCallSite(Calls)

NextReuse == \E a \in Calls, fault \in Faults : TrackErrorInPlace(Main, a, fault)

SpecReuse == InitReuse /\ [][NextReuse]_vars

\* ------------------------------------------------------------------ C11
\* C11 as stated: a row disappears only in a bulk delete of resolved rows
\* that selected it, and only while it is resolved.
C11_DeletedOnlyByBulkDelete ==
    [][\A r \in errorlogs :
          r.id \notin Ids(errorlogs')
          => /\ r.resolved
             /\ \E sel \in Selections : r.id \in sel /\ BulkDeleteResolved(sel)]_vars

\* C11: a row disappears only in a bulk delete of resolved rows that
\* selected it while it is resolved, or in a superuser's delete of that row;
\* ingestion, bulk resolve and unresolve, and edits remove no row.
C11_DeletedOnlyByDelete ==
    [][\A r \in errorlogs :
          r.id \notin Ids(errorlogs')
          => \/ /\ r.resolved
                /\ \E sel \in Selections : r.id \in sel /\ BulkDeleteResolved(sel)
             \/ \E u \in Superusers : DeleteView(r.id, u)]_vars

\* An open row was deleted (no bulk action has ever reported anything) and
\* ingestion has since recorded the same error again in a new row.
C11_Witness ==
    /\ message = 0
    /\ \E r \in errorlogs :
          /\ errorlogs = {r}
          /\ r.id = next_id - 1
          /\ Cardinality(errorlogs) < next_id - 1
          /\ ~r.resolved
          /\ r.count = 1

\* ------------------------------------------------------------------ C12
\* C12: the stack trace of a row is the one stored when the row was
\* created: no step, a merge of an event with another trace included,
\* changes the stack_trace of a row that stays in the table.
C12_StackTraceWriteOnce ==
    [][\A r \in errorlogs : \A r2 \in errorlogs' :
          r2.id = r.id => r2.stack_trace = r.stack_trace]_vars

\* The row created from the deep call path has absorbed the event raised
\* through the shallow one (its host detail is there) and still shows the
\* first trace.
C12_Witness ==
    \E r \in errorlogs :
        /\ r.count >= 2
        /\ r.stack_trace = ExcDeep.tb.text
        /\ ExcShallow.tb.text # ExcDeep.tb.text
        /\ "host" \in DOMAIN r.debug_details
        /\ r.debug_details["host"] = Details2["host"]

\* ------------------------------------------------------------------ C13
\* C13: a call that merges into a row leaves the row's debug_details with
\* the keys of the stored mapping and of the event's enriched context, each
\* key of the event carrying the event's value and every other key the
\* stored one.
C13_MergeUnionLastWriteWins ==
    [][\A a \in Calls :
          (/\ result'[Main] \in Ids(errorlogs)
           /\ message' = message
           /\ next_id' = next_id
           /\ TrackError(Main, a, "none"))
          => LET old == RowById(errorlogs, result'[Main]).debug_details
                 new == CombinedDebugDetails(a)
                 got == RowById(errorlogs', result'[Main]).debug_details
             IN  /\ DOMAIN got = DOMAIN old \cup DOMAIN new
                 /\ \A k \in DOMAIN new : got[k] = new[k]
                 /\ \A k \in DOMAIN old \ DOMAIN new : got[k] = old[k]]_vars

\* A row created by alice's nightly job has merged the anonymous hourly
\* event: job is overwritten, host is added, user is kept.
C13_Witness ==
    \E r \in errorlogs :
        /\ r.count >= 2
        /\ DOMAIN r.debug_details = {"job", "host", "request", "user", "environment"}
        /\ r.debug_details["job"] = "hourly"
        /\ r.debug_details["user"] = "alice"

\* ------------------------------------------------------------------ C14
\* C14: in every reachable state every row has first_occurrence <=
\* last_occurrence, and no step changes the first_occurrence of a row that
\* stays in the table.
C14_FirstBeforeLastAndFixed ==
    /\ [](\A r \in errorlogs : r.first_occurrence <= r.last_occurrence)
    /\ [][\A r \in errorlogs : \A r2 \in errorlogs' :
             r2.id = r.id => r2.first_occurrence = r.first_occurrence]_vars

\* A row created at the first clock read has been saved again later: it
\* was last seen strictly after it was first seen.
C14_Witness ==
    \E r \in errorlogs :
        /\ r.first_occurrence = StartTime
        /\ r.first_occurrence < r.last_occurrence
        /\ r.count >= 2

\* ------------------------------------------------------------------ C15
\* C15: every row recorded for a call carries the file_path, line_number
\* and function_name overrides the call supplied, whatever the shape of its
\* first argument.
C15_OverridesCarried ==
    \A r \in errorlogs :
        LET a == call[Main]
        IN  /\ a.file_path # "" => r.file_path = a.file_path
            /\ a.line_number # NoneLine => r.line_number = a.line_number
            /\ a.function_name # "" => r.function_name = a.function_name

\* ------------------------------------------------------------------ C16
\* C16: every row recorded for a call that supplied custom_message has it
\* as exception_message, whatever the first argument is.
C16_CustomMessageWins ==
    \A r \in errorlogs :
        call[Main].custom_message # "" => r.exception_message = call[Main].custom_message

\* ------------------------------------------------------------------ C17
\* C17: the post_params stored with a row, at its creation and after every
\* merge, have the keys of the posted form; a key is mapped to the marker
\* exactly when its lower-cased spelling contains one of the sensitive
\* terms, and to the posted value otherwise, so the posted value of a
\* sensitive key is not in the row.
C17_PostParamsRedacted ==
    \A r \in errorlogs :
        LET POST == call[Main].request.POST
            stored == r.debug_details["request"]
            HasTerm(key) ==
                \E term \in sensitive_fields : \E i \in 1..Len(key) :
                    /\ i + Len(term) - 1 <= Len(key)
                    /\ \A j \in 1..Len(term) : Lower(key)[i + j - 1] = term[j]
        IN  DOMAIN POST # {}
            => /\ "post_params" \in DOMAIN stored
               /\ DOMAIN stored["post_params"] = DOMAIN POST
               /\ \A key \in DOMAIN POST :
                     /\ stored["post_params"][key] = Filtered <=> HasTerm(key)
                     /\ ~HasTerm(key) => stored["post_params"][key] = POST[key]
                     /\ HasTerm(key) => stored["post_params"][key] # POST[key]

\* The row has merged a second event of a form that posted an upper-case
\* token key and a name: the token is filtered, the name is stored.
C17_Witness ==
    \E r \in errorlogs :
        /\ r.count >= 2
        /\ DOMAIN call[Main].request.POST = {KeyAuthToken, KeyName}
        /\ call[Main].request.POST[KeyAuthToken] = "x"
        /\ r.debug_details["request"]["post_params"][KeyAuthToken] = Filtered
        /\ r.debug_details["request"]["post_params"][KeyName] = "y"

C19_ClientIpPriority ==
    \A r \in errorlogs :
        LET rq == call[Main].request
            Has(name) == name \in DOMAIN rq.META /\ rq.META[name] # <<>>
            expected ==
                IF ~rq.present THEN NoneIp
                ELSE IF Has("HTTP_X_FORWARDED_FOR")
                     THEN Strip(SplitFirst(rq.META["HTTP_X_FORWARDED_FOR"]))
                     ELSE IF Has("HTTP_X_REAL_IP")
                          THEN Strip(rq.META["HTTP_X_REAL_IP"])
                          ELSE IF "REMOTE_ADDR" \in DOMAIN rq.META
                               THEN rq.META["REMOTE_ADDR"]
                               ELSE NoneIp
        IN  /\ r.ip_address = expected
            /\ rq.present => r.debug_details["request"]["ip_address"] = expected

\* The request carried all three headers, the forwarded-for one with two
\* padded entries: the row has its first entry, trimmed.
C19_Witness ==
    \E r \in errorlogs :
        /\ call[Main].request.present
        /\ DOMAIN call[Main].request.META = DOMAIN HeaderValues
        /\ call[Main].request.META["HTTP_X_FORWARDED_FOR"]
              = <<" ", "1.1.1.1", " ", ",", "2.2.2.2">>
        /\ call[Main].request.META["HTTP_X_REAL_IP"] = <<"3.3.3.3">>
        /\ call[Main].request.META["REMOTE_ADDR"] = <<"4.4.4.4">>
        /\ r.ip_address = <<"1.1.1.1">>

\* ------------------------------------------------------------------ C20
\* C20: a merge step of an ingestion call leaves every row that is
\* resolved when the step is taken resolved, with the resolved_by,
\* resolved_at and count it has, however the call's earlier read of the row
\* interleaved with the operator's resolve.
C20_MergeKeepsResolution ==
    [][\A t \in Threads, fault \in Faults :
          TrackMerge(t, fault)
          => \A r \in errorlogs :
                r.resolved
                => \E r2 \in errorlogs' :
                      /\ r2.id = r.id
                      /\ r2.resolved
                      /\ r2.resolved_by = r.resolved_by
                      /\ r2.resolved_at = r.resolved_at
                      /\ r2.count = r.count]_vars

\* ------------------------------------------------------------------ C21
\* C21: the save of a single-record edit loses nothing ingestion has
\* merged into the row since the edit read it: the row keeps the count and
\* the debug_details it has in the table when the save runs.
C21_EditLosesNoMerge ==
    [][\A t \in Threads :
          EditSave(t)
          => \A r \in errorlogs :
                r.id = existing_error[t].id
                => \E r2 \in errorlogs' :
                      /\ r2.id = r.id
                      /\ r2.count = r.count
                      /\ r2.debug_details = r.debug_details]_vars

\* ------------------------------------------------------------------ C22
\* C22: submitting again a call that has already been recorded leaves the
\* number of rows and the count of every row as they are.
C22_ReplayCountsOnce ==
    [][(errorlogs # {} /\ NextReplay)
       => /\ Cardinality(errorlogs') = Cardinality(errorlogs)
          /\ \A r \in errorlogs : \E r2 \in errorlogs' :
                r2.id = r.id /\ r2.count = r.count]_vars

\* ------------------------------------------------------------------ C23
\* C23: a call that creates or merges into a row sets the row's
\* last_occurrence to the time of the call, and a single-record edit, a
\* bulk resolve and a bulk unresolve leave the last_occurrence and the count
\* of every row as they are.
C23_LastOccurrenceOnlyByIngestion ==
    [][/\ \A a \in Calls :
             (result'[Main] # NoneId /\ now' # now /\ message' = message
              /\ TrackError(Main, a, "none"))
             => RowById(errorlogs', result'[Main]).last_occurrence = now
       /\ (\/ \E sel \in Selections, u \in Users : MarkAsResolved(sel, u)
           \/ \E sel \in Selections : MarkAsUnresolved(sel)
           \/ \E r \in errorlogs, u \in Users : \E form \in Forms(r) :
                 ChangeView(r.id, form, u))
          => \A r \in errorlogs : \A r2 \in errorlogs' :
                r2.id = r.id
                => r2.last_occurrence = r.last_occurrence /\ r2.count = r.count]_vars

\* ------------------------------------------------------------------ C24
\* C24: a call that merges into a row changes the row's count,
\* last_occurrence and debug_details and nothing else of it (level,
\* function name, user, request columns, trace and resolution stay), and
\* changes no other row.
C24_MergeFrame ==
    [][\A a \in Calls :
          (/\ result'[Main] \in Ids(errorlogs)
           /\ message' = message
           /\ next_id' = next_id
           /\ TrackError(Main, a, "none"))
          => LET r == RowById(errorlogs, result'[Main])
                 r2 == RowById(errorlogs', result'[Main])
             IN  /\ [r2 EXCEPT !.count = r.count,
                               !.last_occurrence = r.last_occurrence,
                               !.debug_details = r.debug_details] = r
                 /\ \A o \in errorlogs : o.id # r.id => o \in errorlogs']_vars

\* The row alice's request created at level error has merged the anonymous
\* critical event that came without a request: level, user and request
\* columns are those of the first occurrence.
C24_Witness ==
    \E r \in errorlogs :
        /\ r.count >= 2
        /\ "host" \in DOMAIN r.debug_details
        /\ r.error_level = "error"
        /\ r.user = "alice"
        /\ r.request_method = Request1.method
        /\ r.ip_address = get_client_ip(Request1)

\* ------------------------------------------------------------------ C25
\* C25: the mapping a caller passes as debug_details has the same keys and
\* values after the call as before it, whether the call creates, merges or
\* fails.
C25_CallerMappingUntouched ==
    [][call'[Main].debug_details = call[Main].debug_details]_vars

====
